---- MODULE Spec2Model ----
(***************************************************************************)
(* Model of Libraries/Utilities/Alert.tizen.js: the Alert facade and the   *)
(* AlertAndroid / AlertWindows / AlertTizen wrappers around the native     *)
(* dialog modules.                                                         *)
(*                                                                         *)
(* JavaScript values are records tagged with their type, so that           *)
(* undefined, null, strings, functions, objects and array references can   *)
(* be compared with each other.  Arrays live in a heap and are passed by   *)
(* reference, as in JavaScript.  The native modules, AlertIOS and console  *)
(* are collaborators: the model records what they are called with.         *)
(***************************************************************************)
EXTENDS Integers, Sequences, FiniteSets, TLC

VARIABLES
    OS,          \* Platform.OS
    buttonsArg,  \* the `buttons` argument the caller passes: an array reference or undefined
    heap,        \* the arrays: heap.buttons is the caller's, heap.validButtons the adapter's local
    pc,          \* "idle", or "awaiting" while a native dialog holds the two callbacks
    request,     \* whether Alert.alert was called, and the title and message of the last call
    calls,       \* the collaborator calls made by the last Alert.alert call, in order
    pending,     \* what the callbacks given to showAlert close over
    delivered,   \* the callback the native module invoked after the last showAlert
    pressed,     \* the onPress functions invoked since the last Alert.alert call, in order
    raised,      \* whether a TypeError was thrown since the last Alert.alert call
    warnings,    \* the arguments of console.warn since the last Alert.alert call
    consoleLog   \* the arguments of console.log since the last Alert.alert call

vars == <<OS, buttonsArg, heap, pc, request, calls, pending, delivered,
          pressed, raised, warnings, consoleLog>>

\* The longest button list a caller passes: one more than the largest platform maximum.
MaxLen == 4

(***************************************************************************)
(* JavaScript values                                                       *)
(***************************************************************************)
Undefined == [type |-> "undefined"]
Null == [type |-> "null"]
Str(s) == [type |-> "string", value |-> s]
Fn(name) == [type |-> "function", name |-> name]
ArrayRef(r) == [type |-> "array", ref |-> r]

\* ToBoolean: undefined, null and '' are falsy; objects, arrays (also empty
\* ones), functions and non-empty strings are truthy.
Truthy(v) == /\ v.type \notin {"undefined", "null"}
             /\ v # Str("")

OrEmptyNoDefault(v) == v

\* `v || ''`
OrEmpty(v) == IF Truthy(v) THEN v ELSE Str("")

\* `{...config, key: value}`
Spread(config, key, value) == (key :> value) @@ config

Min(a, b) == IF a < b THEN a ELSE b

sliceNoEnd(a, begin, end) == SubSeq(a, begin + 1, Len(a))

\* Array.prototype.slice(begin, end) for 0 <= begin <= end: the elements of a new array.
slice(a, begin, end) == SubSeq(a, begin + 1, Min(end, Len(a)))

\* Array.prototype.shift: as pop, from the front.
shift(h, ref) ==
    IF Len(h[ref]) = 0
    THEN [heap |-> h, value |-> Undefined]
    ELSE [heap |-> [h EXCEPT ![ref] = Tail(h[ref])], value |-> Head(h[ref])]

\* Array.prototype.pop on the array at ref: removes and returns the last
\* element, or returns undefined and leaves an empty array empty.
pop(h, ref) ==
    IF Len(h[ref]) = 0
    THEN [heap |-> h, value |-> Undefined]
    ELSE [heap |-> [h EXCEPT ![ref] = SubSeq(h[ref], 1, Len(h[ref]) - 1)],
          value |-> h[ref][Len(h[ref])]]

(***************************************************************************)
(* The caller's inputs                                                     *)
(***************************************************************************)
Labels == <<"A", "B", "C", "D", "E", "F", "G", "H">>

\* The button at position i of the caller's list: its text and its onPress
\* are each present or absent (a missing property reads as undefined).
Button(i, hasText, hasOnPress) ==
    [type |-> "object",
     text |-> IF hasText THEN Str(Labels[i]) ELSE Undefined,
     onPress |-> IF hasOnPress THEN Fn(Labels[i]) ELSE Undefined]

ButtonLists ==
    UNION {{[i \in 1..n |-> Button(i, c[i][1], c[i][2])] :
                c \in [1..n -> BOOLEAN \X BOOLEAN]} : n \in 0..MaxLen}

Titles == {Null, Str(""), Str("Title")}
Messages == {Undefined, Str("Msg")}
AlertTypes == {Undefined, Str("plain-text")}
PlatformIds == {"ios", "android", "windows", "tizen", "web"}

(***************************************************************************)
(* The constants of the native dialog modules, NativeModules.DialogManagerX *)
(***************************************************************************)
buttonClicked == Str("buttonClicked")
dismissed == Str("dismissed")
buttonPositive == Str("buttonPositive")
buttonNegative == Str("buttonNegative")
buttonNeutral == Str("buttonNeutral")

\* What a native module may hand to the result callback.
Actions == {buttonClicked, dismissed}
ButtonKeys == {buttonPositive, buttonNegative, buttonNeutral, Undefined}
ErrorMessages == {Str("E")}

NoRequest == [called |-> FALSE, title |-> Undefined, message |-> Undefined]
NoPending == [module |-> "none", message |-> Undefined, buttonPositive |-> Undefined,
              buttonNegative |-> Undefined, buttonNeutral |-> Undefined]
NoDelivery == [kind |-> "none"]

Init ==
    /\ OS \in PlatformIds
    /\ \/ /\ buttonsArg = ArrayRef("buttons")
          /\ \E l \in ButtonLists : heap = [buttons |-> l, validButtons |-> <<>>]
       \/ /\ buttonsArg = Undefined
          /\ heap = [buttons |-> <<>>, validButtons |-> <<>>]
    /\ pc = "idle"
    /\ request = NoRequest
    /\ calls = <<>>
    /\ pending = NoPending
    /\ delivered = NoDelivery
    /\ pressed = <<>>
    /\ raised = FALSE
    /\ warnings = <<>>
    /\ consoleLog = <<>>

(***************************************************************************)
(* The adapters                                                            *)
(***************************************************************************)
OKButton == [type |-> "object", text |-> Str("OK"), onPress |-> Undefined]

\* As newValidButtons, truncating the caller's array instead of copying it.
validButtonsInPlace(h, buttons, max) ==
    IF Truthy(buttons)
    THEN [heap |-> [h EXCEPT ![buttons.ref] = slice(h[buttons.ref], 0, max)],
          ref |-> buttons.ref]
    ELSE [heap |-> [h EXCEPT !.validButtons = <<OKButton>>], ref |-> "validButtons"]

\* `buttons ? buttons.slice(0, max) : [{text: 'OK'}]`: a new array either
\* way; the result names the heap after the allocation and the new array.
newValidButtons(h, buttons, max) ==
    IF Truthy(buttons)
    THEN [heap |-> [h EXCEPT !.validButtons = slice(h[buttons.ref], 0, max)],
          ref |-> "validButtons"]
    ELSE [heap |-> [h EXCEPT !.validButtons = <<OKButton>>], ref |-> "validButtons"]

\* `if (button) { config = {...config, key: button.text || ''} }`
withButton(config, key, button) ==
    IF Truthy(button) THEN Spread(config, key, OrEmpty(button.text)) ELSE config

AlertAndroid_alert(title, message, buttons) ==
    LET config == [title |-> OrEmpty(title), message |-> OrEmpty(message)]
        validButtons == newValidButtons(heap, buttons, 3)
        p1 == pop(validButtons.heap, validButtons.ref)
        p2 == pop(p1.heap, validButtons.ref)
        p3 == pop(p2.heap, validButtons.ref)
        config1 == withButton(config, "buttonNeutral", p3.value)
        config2 == withButton(config1, "buttonNegative", p2.value)
        config3 == withButton(config2, "buttonPositive", p1.value)
    IN  /\ heap' = p3.heap
        /\ calls' = <<[callee |-> "DialogManagerAndroid.showAlert", config |-> config3]>>
        /\ pending' = [module |-> "DialogManagerAndroid", message |-> message,
                       buttonPositive |-> p1.value, buttonNegative |-> p2.value,
                       buttonNeutral |-> p3.value]
        /\ warnings' = <<>>
        /\ pc' = "awaiting"

\* Two slots: there is no buttonNeutral variable in this adapter.
AlertWindows_alert(title, message, buttons) ==
    LET config == [title |-> OrEmpty(title), message |-> OrEmpty(message)]
        validButtons == newValidButtons(heap, buttons, 2)
        p1 == pop(validButtons.heap, validButtons.ref)
        p2 == pop(p1.heap, validButtons.ref)
        config1 == withButton(config, "buttonNegative", p2.value)
        config2 == withButton(config1, "buttonPositive", p1.value)
    IN  /\ heap' = p2.heap
        /\ calls' = <<[callee |-> "DialogManagerWindows.showAlert", config |-> config2]>>
        /\ pending' = [module |-> "DialogManagerWindows", message |-> message,
                       buttonPositive |-> p1.value, buttonNegative |-> p2.value,
                       buttonNeutral |-> Undefined]
        /\ warnings' = <<>>
        /\ pc' = "awaiting"

AlertTizen_alert(title, message, buttons) ==
    LET config == [title |-> OrEmpty(title), message |-> OrEmpty(message)]
        validButtons == newValidButtons(heap, buttons, 3)
        p1 == pop(validButtons.heap, validButtons.ref)
        p2 == pop(p1.heap, validButtons.ref)
        p3 == pop(p2.heap, validButtons.ref)
        config1 == withButton(config, "buttonNeutral", p3.value)
        config2 == withButton(config1, "buttonNegative", p2.value)
        config3 == withButton(config2, "buttonPositive", p1.value)
    IN  /\ heap' = p3.heap
        /\ calls' = <<[callee |-> "DialogManagerTizen.showAlert", config |-> config3]>>
        /\ pending' = [module |-> "DialogManagerTizen", message |-> message,
                       buttonPositive |-> p1.value, buttonNegative |-> p2.value,
                       buttonNeutral |-> p3.value]
        /\ warnings' = <<>>
        /\ pc' = "awaiting"

(***************************************************************************)
(* The facade                                                              *)
(***************************************************************************)
DeprecationWarning ==
    Str("Alert.alert() with a 4th \"type\" parameter is deprecated and will be removed. Use AlertIOS.prompt() instead.")

\* As platformBranch, with the last test of the chain a plain else.
platformBranchElseTizen(os) ==
    IF os = "ios" THEN "ios"
    ELSE IF os = "android" THEN "android"
    ELSE IF os = "windows" THEN "windows"
    ELSE "tizen"

\* The branch of Alert.alert's if-chain that Platform.OS selects.
platformBranch(os) ==
    IF os = "ios" THEN "ios"
    ELSE IF os = "android" THEN "android"
    ELSE IF os = "windows" THEN "windows"
    ELSE IF os = "tizen" THEN "tizen"
    ELSE "none"

\* AlertIOS.alert is given the caller's arguments as they are; with a defined
\* `type` the deprecation warning comes first and type is passed as well.
AlertIOS_branch(title, message, buttons, type) ==
    /\ IF type # Undefined
       THEN /\ warnings' = <<DeprecationWarning>>
            /\ calls' = <<[callee |-> "AlertIOS.alert",
                           args |-> <<title, message, buttons, type>>]>>
       ELSE /\ warnings' = <<>>
            /\ calls' = <<[callee |-> "AlertIOS.alert",
                           args |-> <<title, message, buttons>>]>>
    /\ pending' = NoPending
    /\ UNCHANGED <<heap, pc>>

Alert_alert(title, message, buttons, type) ==
    /\ pc = "idle"
    /\ request' = [called |-> TRUE, title |-> title, message |-> message]
    /\ delivered' = NoDelivery
    /\ pressed' = <<>>
    /\ raised' = FALSE
    /\ consoleLog' = <<>>
    /\ CASE platformBranch(OS) = "ios" -> AlertIOS_branch(title, message, buttons, type)
         [] platformBranch(OS) = "android" -> AlertAndroid_alert(title, message, buttons)
         [] platformBranch(OS) = "windows" -> AlertWindows_alert(title, message, buttons)
         [] platformBranch(OS) = "tizen" -> AlertTizen_alert(title, message, buttons)
         [] OTHER -> /\ calls' = <<>>
                     /\ warnings' = <<>>
                     /\ pending' = NoPending
                     /\ UNCHANGED <<heap, pc>>
    /\ UNCHANGED <<OS, buttonsArg>>

CallAlert ==
    \E title \in Titles, message \in Messages, type \in AlertTypes :
        Alert_alert(title, message, buttonsArg, type)


(***************************************************************************)
(* The callbacks given to showAlert                                        *)
(***************************************************************************)
NoEffect == [raised |-> FALSE, pressed |-> <<>>]

\* As invokeOnPress, calling the function once for the test and once more.
invokeOnPressTwice(button) ==
    IF button = Undefined
    THEN [raised |-> TRUE, pressed |-> <<>>]
    ELSE IF Truthy(button.onPress)
         THEN [raised |-> FALSE, pressed |-> <<button.onPress, button.onPress>>]
         ELSE NoEffect

\* `button.onPress && button.onPress()`: reading a property of undefined
\* throws a TypeError; an absent onPress short-circuits.
invokeOnPress(button) ==
    IF button = Undefined
    THEN [raised |-> TRUE, pressed |-> <<>>]
    ELSE IF Truthy(button.onPress)
         THEN [raised |-> FALSE, pressed |-> <<button.onPress>>]
         ELSE NoEffect

notClickedNever(action) == FALSE

\* `action !== DialogModule.buttonClicked`, the early return of every result callback
notClicked(action) == action # buttonClicked

AndroidResult(action, buttonKey, c) ==
    IF notClicked(action) THEN NoEffect
    ELSE IF buttonKey = buttonNeutral THEN invokeOnPress(c.buttonNeutral)
    ELSE IF buttonKey = buttonNegative THEN invokeOnPress(c.buttonNegative)
    ELSE IF buttonKey = buttonPositive THEN invokeOnPress(c.buttonPositive)
    ELSE NoEffect

WindowsResult(action, buttonKey, c) ==
    IF notClicked(action) THEN NoEffect
    ELSE IF buttonKey = buttonNegative THEN invokeOnPress(c.buttonNegative)
    ELSE IF buttonKey = buttonPositive THEN invokeOnPress(c.buttonPositive)
    ELSE NoEffect

TizenResult(action, buttonKey, c) ==
    IF notClicked(action) THEN NoEffect
    ELSE IF buttonKey = buttonNeutral THEN invokeOnPress(c.buttonNeutral)
    ELSE IF buttonKey = buttonNegative THEN invokeOnPress(c.buttonNegative)
    ELSE IF buttonKey = buttonPositive THEN invokeOnPress(c.buttonPositive)
    ELSE NoEffect

\* The console.log calls of the Tizen result callback.
TizenResultLog(action, buttonKey, c) ==
    IF notClicked(action) THEN <<>>
    ELSE <<Str("-----------------alert----sss-------------"), buttonKey,
           Str("DialogModuleTizen:"), buttonNeutral, buttonNegative, buttonPositive>>
         \o (IF buttonKey # buttonNeutral /\ buttonKey # buttonNegative
                /\ buttonKey = buttonPositive
             THEN <<c.buttonPositive>> ELSE <<>>)

AndroidResultCallback(action, buttonKey) ==
    /\ pc = "awaiting"
    /\ pending.module = "DialogManagerAndroid"
    /\ pressed' = pressed \o AndroidResult(action, buttonKey, pending).pressed
    /\ raised' = AndroidResult(action, buttonKey, pending).raised
    /\ delivered' = [kind |-> "result", action |-> action, buttonKey |-> buttonKey]
    /\ pc' = "idle"
    /\ UNCHANGED <<OS, buttonsArg, heap, request, calls, pending, warnings, consoleLog>>

WindowsResultCallback(action, buttonKey) ==
    /\ pc = "awaiting"
    /\ pending.module = "DialogManagerWindows"
    /\ pressed' = pressed \o WindowsResult(action, buttonKey, pending).pressed
    /\ raised' = WindowsResult(action, buttonKey, pending).raised
    /\ delivered' = [kind |-> "result", action |-> action, buttonKey |-> buttonKey]
    /\ pc' = "idle"
    /\ UNCHANGED <<OS, buttonsArg, heap, request, calls, pending, warnings, consoleLog>>

TizenResultCallback(action, buttonKey) ==
    /\ pc = "awaiting"
    /\ pending.module = "DialogManagerTizen"
    /\ consoleLog' = consoleLog \o TizenResultLog(action, buttonKey, pending)
    /\ pressed' = pressed \o TizenResult(action, buttonKey, pending).pressed
    /\ raised' = TizenResult(action, buttonKey, pending).raised
    /\ delivered' = [kind |-> "result", action |-> action, buttonKey |-> buttonKey]
    /\ pc' = "idle"
    /\ UNCHANGED <<OS, buttonsArg, heap, request, calls, pending, warnings>>

\* `(errorMessage) => console.warn(message)`, the same in the three adapters:
\* the value logged is the alert's message, which the arrow function closes over.
ErrorCallback(module, errorMessage) ==
    /\ pc = "awaiting"
    /\ pending.module = module
    /\ warnings' = Append(warnings, pending.message)
    /\ delivered' = [kind |-> "error", errorMessage |-> errorMessage]
    /\ pc' = "idle"
    /\ UNCHANGED <<OS, buttonsArg, heap, request, calls, pending, pressed, raised,
                   consoleLog>>

AndroidResultDelivered ==
    \E action \in Actions, buttonKey \in ButtonKeys : AndroidResultCallback(action, buttonKey)

WindowsResultDelivered ==
    \E action \in Actions, buttonKey \in ButtonKeys : WindowsResultCallback(action, buttonKey)

TizenResultDelivered ==
    \E action \in Actions, buttonKey \in ButtonKeys : TizenResultCallback(action, buttonKey)

AndroidErrorDelivered ==
    \E errorMessage \in ErrorMessages : ErrorCallback("DialogManagerAndroid", errorMessage)

WindowsErrorDelivered ==
    \E errorMessage \in ErrorMessages : ErrorCallback("DialogManagerWindows", errorMessage)

TizenErrorDelivered ==
    \E errorMessage \in ErrorMessages : ErrorCallback("DialogManagerTizen", errorMessage)

Next ==
    \/ CallAlert
    \/ AndroidResultDelivered
    \/ WindowsResultDelivered
    \/ TizenResultDelivered
    \/ AndroidErrorDelivered
    \/ WindowsErrorDelivered
    \/ TizenErrorDelivered

Spec == Init /\ [][Next]_vars


(***************************************************************************)
(* Properties                                                              *)
(***************************************************************************)
RoleKeys == {"buttonPositive", "buttonNegative", "buttonNeutral"}

AdapterOS == OS \in {"android", "windows", "tizen"}

\* The platform maximum of buttons, as the documentation of Alert states it.
PlatformMax == IF OS = "windows" THEN 2 ELSE 3

\* An adapter has called showAlert; Config is what it passed.
ShowAlertCalled == AdapterOS /\ request.called /\ Len(calls) = 1
Config == calls[1].config
Roles == DOMAIN Config \cap RoleKeys

ListPassed == buttonsArg # Undefined
CallerList == heap.buttons
\* How many of the caller's buttons fit the platform.
Kept == Min(Len(CallerList), PlatformMax)

LabelOf(button) == IF button.text = Undefined THEN Str("") ELSE button.text

\* The button a role stands for, as a sequence of one button, or of none:
\* counted from the end of the first Kept buttons of the caller's list, or
\* the default button when no list was passed.
AssignedTo(role) ==
    LET back == CASE role = "buttonPositive" -> 0
                  [] role = "buttonNegative" -> 1
                  [] role = "buttonNeutral" -> 2
    IN  IF back >= PlatformMax THEN <<>>
        ELSE IF ~ListPassed THEN (IF back = 0 THEN <<OKButton>> ELSE <<>>)
        ELSE IF Kept - back >= 1 THEN <<CallerList[Kept - back]>>
        ELSE <<>>

\* The role a key delivered by the native module names on this platform, if any.
RoleOfKey(key) ==
    IF key = buttonPositive THEN <<"buttonPositive">>
    ELSE IF key = buttonNegative THEN <<"buttonNegative">>
    ELSE IF key = buttonNeutral /\ PlatformMax = 3 THEN <<"buttonNeutral">>
    ELSE <<>>

\* C1 (as claimed): on every adapter, an alert with an empty button list, or
\* with no button list, passes a config whose buttonPositive is "OK" and
\* which has no buttonNegative and no buttonNeutral.
C1_EmptyListYieldsOK ==
    (ShowAlertCalled /\ (~ListPassed \/ Len(CallerList) = 0))
        => /\ Roles = {"buttonPositive"}
           /\ Config["buttonPositive"] = Str("OK")

\* C2: for every button list and adapter, the config carries at most the
\* platform maximum of labels, they are the labels of the first max buttons
\* of the list in list order, and only onPress functions of those first max
\* buttons are ever invoked.
C2_TruncatedToPlatformMax ==
    (ShowAlertCalled /\ ListPassed)
        => /\ Cardinality(Roles) <= PlatformMax
           /\ LET carried == (IF "buttonNeutral" \in Roles
                              THEN <<Config["buttonNeutral"]>> ELSE <<>>)
                             \o (IF "buttonNegative" \in Roles
                                 THEN <<Config["buttonNegative"]>> ELSE <<>>)
                             \o (IF "buttonPositive" \in Roles
                                 THEN <<Config["buttonPositive"]>> ELSE <<>>)
              IN  carried = [i \in 1..Kept |-> LabelOf(CallerList[i])]
           /\ \A j \in 1..Len(pressed) :
                \E i \in 1..Kept : pressed[j] = CallerList[i].onPress

C2_Witness ==
    /\ ShowAlertCalled /\ ListPassed
    /\ Len(CallerList) = PlatformMax + 1
    /\ CallerList[PlatformMax + 1].onPress # Undefined
    /\ delivered.kind = "result"
    /\ delivered.action = buttonClicked
    /\ pressed # <<>>

\* C3: roles are assigned last-to-first over the truncated list: positive is
\* its last button, negative the one before, neutral (3-slot adapters) the
\* one before that; a role without a button is absent from the config, and a
\* button without text has the label "".
C3_RolesLastToFirst ==
    (ShowAlertCalled /\ ListPassed)
        => \A role \in RoleKeys :
             IF AssignedTo(role) = <<>>
             THEN role \notin DOMAIN Config
             ELSE /\ role \in DOMAIN Config
                  /\ Config[role] = LabelOf(AssignedTo(role)[1])

C3_Witness ==
    /\ ShowAlertCalled /\ ListPassed
    /\ OS = "android"
    /\ Len(CallerList) = 3
    /\ CallerList[1].text = Undefined
    /\ Config = [title |-> Str("Title"), message |-> Str("Msg"), buttonNeutral |-> Str(""),
                 buttonNegative |-> Str("B"), buttonPositive |-> Str("C")]

\* C4 (as claimed): neither the alert call nor the callbacks ever raise.
C4_NothingRaised == raised = FALSE

\* C5 (as claimed): after the error callback was invoked with error message
\* E, the one warning logged is E, no onPress was invoked, nothing was raised
\* and showAlert was called once.
C5_ErrorMessageWarned ==
    delivered.kind = "error"
        => /\ warnings = <<delivered.errorMessage>>
           /\ pressed = <<>>
           /\ ~raised
           /\ Len(calls) = 1

\* C6: a result callback whose action is not buttonClicked invokes no
\* onPress, whatever the adapter, the button list and the role key.
C6_NotClickedInvokesNothing ==
    (delivered.kind = "result" /\ delivered.action # buttonClicked)
        => pressed = <<>>

C6_Witness ==
    /\ delivered.kind = "result"
    /\ delivered.action = dismissed
    /\ delivered.buttonKey = buttonNegative
    /\ pending.buttonNegative # Undefined
    /\ pending.buttonNegative.onPress # Undefined

\* C7: after a result callback with action buttonClicked, if the key names a
\* role with an assigned button, that button's onPress, when it has one, was
\* invoked once and nothing else was; when it has none, nothing was invoked
\* or raised; if the key names no role of the adapter, nothing was invoked.
C7_ExactlyTheSelectedButton ==
    (ShowAlertCalled /\ delivered.kind = "result" /\ delivered.action = buttonClicked)
        => LET role == RoleOfKey(delivered.buttonKey)
           IN  IF role = <<>> THEN pressed = <<>>
               ELSE IF AssignedTo(role[1]) = <<>> THEN TRUE
               ELSE IF AssignedTo(role[1])[1].onPress = Undefined
                    THEN pressed = <<>> /\ ~raised
                    ELSE pressed = <<AssignedTo(role[1])[1].onPress>> /\ ~raised

C7_Witness ==
    /\ ShowAlertCalled /\ ListPassed
    /\ Len(CallerList) = 4
    /\ delivered.kind = "result"
    /\ delivered.action = buttonClicked
    /\ delivered.buttonKey = buttonNegative
    /\ \A i \in 1..4 : CallerList[i].onPress # Undefined
    /\ pressed = <<Fn("B")>>

\* C8: each Alert.alert call makes exactly one collaborator call, the one of
\* the platform (AlertIOS.alert on ios, the platform's own showAlert on
\* android, windows and tizen), and none is added later; on any other
\* platform nothing is called, nothing is warned and nothing is raised.
C8_OneCollaboratorPerPlatform ==
    IF ~request.called THEN calls = <<>>
    ELSE CASE OS = "ios" -> Len(calls) = 1 /\ calls[1].callee = "AlertIOS.alert"
           [] OS = "android" ->
                Len(calls) = 1 /\ calls[1].callee = "DialogManagerAndroid.showAlert"
           [] OS = "windows" ->
                Len(calls) = 1 /\ calls[1].callee = "DialogManagerWindows.showAlert"
           [] OS = "tizen" ->
                Len(calls) = 1 /\ calls[1].callee = "DialogManagerTizen.showAlert"
           [] OTHER -> calls = <<>> /\ warnings = <<>> /\ ~raised /\ pc = "idle"

C8_Witness ==
    /\ request.called
    /\ OS = "web"
    /\ request.title = Str("Title")

\* C9: every adapter's config has the caller's title and message, or "" for
\* one that is null or undefined; alert(null) on the Windows adapter passes
\* exactly {title: "", message: "", buttonPositive: "OK"}.
C9_TitleAndMessageDefaulted ==
    ShowAlertCalled
        => /\ Config["title"] = (IF request.title \in {Null, Undefined}
                                 THEN Str("") ELSE request.title)
           /\ Config["message"] = (IF request.message \in {Null, Undefined}
                                   THEN Str("") ELSE request.message)
           /\ (OS = "windows" /\ request.title = Null /\ request.message = Undefined
               /\ ~ListPassed)
                => Config = [title |-> Str(""), message |-> Str(""),
                             buttonPositive |-> Str("OK")]

C9_Witness ==
    /\ ShowAlertCalled
    /\ OS = "windows"
    /\ request.title = Null
    /\ request.message = Undefined
    /\ ~ListPassed

\* C10: no step changes the caller's button list, or the reference the
\* caller holds to it: neither an alert call, nor a callback, nor a later
\* alert call with the same list.
C10_CallerListUnchanged ==
    [][heap.buttons' = heap.buttons /\ buttonsArg' = buttonsArg]_vars

C10_Witness ==
    /\ ShowAlertCalled /\ ListPassed
    /\ Len(CallerList) = MaxLen
    /\ heap.validButtons = <<>>
    /\ delivered.kind = "result"
    /\ pressed # <<>>


====
